---- MODULE Spec2Model ----
(***************************************************************************)
(* Model of scripts/update-base-md.py: the heading-structured section      *)
(* editor (parse_sections, find_section_bounds, replace_section,           *)
(* append_after_section, read_content, main).                              *)
(*                                                                         *)
(* Text is modelled by TLA+ strings, used as sequences of characters       *)
(* (Len, SubSeq, \o).  Line indices are 0-based as in the source; the      *)
(* i-th line of a list of lines  ls  (0-based) is  ls[i + 1].              *)
(***************************************************************************)
EXTENDS Integers, Sequences, FiniteSets, TLC

(***************************************************************************)
(* Bounds of the model.                                                    *)
(***************************************************************************)
\* Lines of a document the editing functions are applied to.
MaxDocLines == 3
\* Characters of a text parse_sections is applied to, character by character.
MaxTextLen == 6
\* Leading '#' characters of a generated heading-like line.
MaxLead == 7
\* Lines of the file a run of main works on.
MaxRunLines == 2

(***************************************************************************)
(* Python built-ins used by the script.                                    *)
(***************************************************************************)
NL == "\n"

\* The characters str.strip() removes and the regular expression's \s matches
\* (restricted to the alphabet of the model).
Whitespace == {" ", "\t", "\n"}

Chr(s, i) == SubSeq(s, i, i)

\* s[i:] with a 0-based i, 0 <= i
From(s, i) == SubSeq(s, i + 1, Len(s))

\* s[:i] with a 0-based i, 0 <= i
Upto(s, i) == SubSeq(s, 1, IF i < Len(s) THEN i ELSE Len(s))

\* str.lower() of one character
LowerChr(c) ==
  CASE c = "A" -> "a"
    [] c = "B" -> "b"
    [] c = "C" -> "c"
    [] c = "X" -> "x"
    [] c = "Z" -> "z"
    [] OTHER -> c

RECURSIVE lower(_)
lower(s) == IF s = "" THEN "" ELSE LowerChr(Chr(s, 1)) \o lower(Tail(s))

RECURSIVE lstrip(_)
lstrip(s) == IF s # "" /\ Chr(s, 1) \in Whitespace THEN lstrip(Tail(s)) ELSE s

RECURSIVE rstrip(_)
rstrip(s) ==
  IF s # "" /\ Chr(s, Len(s)) \in Whitespace
    THEN rstrip(SubSeq(s, 1, Len(s) - 1))
    ELSE s

\* str.strip()
strip(s) == lstrip(rstrip(s))

\* str.rstrip('\n')
RECURSIVE rstrip_nl(_)
rstrip_nl(s) ==
  IF s # "" /\ Chr(s, Len(s)) = NL
    THEN rstrip_nl(SubSeq(s, 1, Len(s) - 1))
    ELSE s

\* s.startswith(p)
startswith(s, p) == Len(p) <= Len(s) /\ SubSeq(s, 1, Len(p)) = p

\* p in s
RECURSIVE contains(_, _)
contains(s, p) ==
  \/ startswith(s, p)
  \/ s # "" /\ contains(Tail(s), p)

\* str.split('\n'): the list of lines, never empty ("" splits into [""]).
RECURSIVE split(_, _)
split(s, cur) ==
  IF s = "" THEN <<cur>>
  ELSE IF Chr(s, 1) = NL THEN <<cur>> \o split(Tail(s), "")
  ELSE split(Tail(s), cur \o Chr(s, 1))

split_nl(s) == split(s, "")

\* '\n'.join(lines)
RECURSIVE join_nl(_)
join_nl(ls) ==
  IF ls = <<>> THEN ""
  ELSE IF Len(ls) = 1 THEN ls[1]
  ELSE ls[1] \o NL \o join_nl(Tail(ls))

\* '#' * n
RECURSIVE hashes(_)
hashes(n) == IF n = 0 THEN "" ELSE "#" \o hashes(n - 1)

\* '  ' * n
RECURSIVE indent(_)
indent(n) == IF n = 0 THEN "" ELSE "  " \o indent(n - 1)

\* ---------------------------------------------------------------------------
\* heading_re.match(line): 1 to 6 '#', then whitespace (\s+), then the rest.
\* ---------------------------------------------------------------------------
MaxHashes == 6

\* Whether the pattern matches with group(1) taking exactly k characters:
\* k '#' characters, then at least one whitespace character (\s+); the rest
\* is taken by the last group, which cannot fail on a line without '\n'.
MatchesWith(line, k) ==
  /\ k + 1 <= Len(line)
  /\ \A i \in 1..k : Chr(line, i) = "#"
  /\ Chr(line, k + 1) \in Whitespace

\* The k the greedy #{1,6} ends with: the largest that lets the rest match
\* (0 when the line does not match).
RECURSIVE GreedyHashes(_, _)
GreedyHashes(line, k) ==
  IF k = 0 THEN 0
  ELSE IF MatchesWith(line, k) THEN k
  ELSE GreedyHashes(line, k - 1)

\* Mutant of heading_match: the pattern with #{1,7}.
heading_match_upto7(line) == GreedyHashes(line, MaxHashes + 1)

heading_match(line) == GreedyHashes(line, MaxHashes)

\* m.group(2): what is left after the greedy \s+ took every whitespace
\* character that follows the hashes.
heading_group2(line) == lstrip(From(line, heading_match(line)))

(***************************************************************************)
(* parse_sections(text): (lines, sections), sections the list of           *)
(* (line index, level, title) of the heading lines, in line order.         *)
(***************************************************************************)
RECURSIVE scan_headings(_, _)
scan_headings(lines, i) ==
  IF i >= Len(lines) THEN <<>>
  ELSE LET line == lines[i + 1]
           level == heading_match(line)
       IN  (IF level > 0
              THEN <<[line_idx |-> i, level |-> level,
                      title |-> strip(heading_group2(line))]>>
              ELSE <<>>)
           \o scan_headings(lines, i + 1)

parse_sections(text) ==
  LET lines == split_nl(text)
  IN  [lines |-> lines, sections |-> scan_headings(lines, 0)]

(***************************************************************************)
(* find_section_bounds(lines, sections, target_title)                      *)
(***************************************************************************)
NotFoundBounds == [found |-> FALSE, start |-> 0, end |-> 0, level |-> 0]

\* Mutant of title_matches: equality only, without the substring test.
title_matches_exact(title, target_title) == lower(title) = lower(target_title)

title_matches(title, target_title) ==
  LET target_lower == lower(target_title)
  IN  lower(title) = target_lower \/ contains(lower(title), target_lower)

\* Mutant of section_end: next_level < level in place of next_level <= level.
RECURSIVE section_end_strict(_, _, _, _)
section_end_strict(lines, sections, j, level) ==
  IF j > Len(sections) THEN Len(lines)
  ELSE IF sections[j].level < level THEN sections[j].line_idx
  ELSE section_end_strict(lines, sections, j + 1, level)

\* The inner loop over sections[idx + 1:], from position j (1-based).
RECURSIVE section_end(_, _, _, _)
section_end(lines, sections, j, level) ==
  IF j > Len(sections) THEN Len(lines)
  ELSE IF sections[j].level <= level THEN sections[j].line_idx
  ELSE section_end(lines, sections, j + 1, level)

\* The outer loop over enumerate(sections), from position idx (1-based).
RECURSIVE find_from(_, _, _, _)
find_from(lines, sections, target_title, idx) ==
  IF idx > Len(sections) THEN NotFoundBounds
  ELSE IF title_matches(sections[idx].title, target_title)
    THEN [found |-> TRUE,
          start |-> sections[idx].line_idx,
          end   |-> section_end(lines, sections, idx + 1, sections[idx].level),
          level |-> sections[idx].level]
  ELSE find_from(lines, sections, target_title, idx + 1)

find_section_bounds(lines, sections, target_title) ==
  find_from(lines, sections, target_title, 1)

(***************************************************************************)
(* replace_section, append_after_section: either the new text, or          *)
(* sys.exit(1) after the "not found" message.                              *)
(***************************************************************************)
Returned(t) == [exit |-> 0, text |-> t]

SysExit == [exit |-> 1, text |-> ""]

\* Mutant of content_lines: without rstrip('\n').
content_lines_no_rstrip(new_content) == split_nl(new_content)

\* new_content.rstrip('\n').split('\n')
content_lines(new_content) == split_nl(rstrip_nl(new_content))

\* Mutant of replace_section: lines[start + 1:] in place of lines[end:], so
\* the old body is kept.
replace_section_keep_body(text, target_title, new_content) ==
  LET p == parse_sections(text)
      b == find_section_bounds(p.lines, p.sections, target_title)
  IN  IF ~b.found THEN SysExit
      ELSE Returned(join_nl(Upto(p.lines, b.start + 1) \o <<"">>
                            \o content_lines(new_content) \o <<"">>
                            \o From(p.lines, b.start + 1)))

\* Mutant of replace_section: the text is returned as it is when the section
\* is not found.
replace_section_no_exit(text, target_title, new_content) ==
  LET p == parse_sections(text)
      b == find_section_bounds(p.lines, p.sections, target_title)
  IN  IF ~b.found THEN Returned(text)
      ELSE Returned(join_nl(Upto(p.lines, b.start + 1) \o <<"">>
                            \o content_lines(new_content) \o <<"">>
                            \o From(p.lines, b.end)))

replace_section(text, target_title, new_content) ==
  LET p == parse_sections(text)
      b == find_section_bounds(p.lines, p.sections, target_title)
  IN  IF ~b.found THEN SysExit
      ELSE Returned(join_nl(Upto(p.lines, b.start + 1) \o <<"">>
                            \o content_lines(new_content) \o <<"">>
                            \o From(p.lines, b.end)))

\* Mutant of append_after_section: without the blank line before the content.
append_without_separator(text, target_title, new_content) ==
  LET p == parse_sections(text)
      b == find_section_bounds(p.lines, p.sections, target_title)
  IN  IF ~b.found THEN SysExit
      ELSE Returned(join_nl(Upto(p.lines, b.end)
                            \o content_lines(new_content) \o <<"">>
                            \o From(p.lines, b.end)))

\* Mutant of append_after_section: the content goes right after the heading
\* (lines[:start + 1]) in place of after the section (lines[:end]).
append_at_section_start(text, target_title, new_content) ==
  LET p == parse_sections(text)
      b == find_section_bounds(p.lines, p.sections, target_title)
  IN  IF ~b.found THEN SysExit
      ELSE Returned(join_nl(Upto(p.lines, b.start + 1) \o <<"">>
                            \o content_lines(new_content) \o <<"">>
                            \o From(p.lines, b.start + 1)))

append_after_section(text, target_title, new_content) ==
  LET p == parse_sections(text)
      b == find_section_bounds(p.lines, p.sections, target_title)
  IN  IF ~b.found THEN SysExit
      ELSE Returned(join_nl(Upto(p.lines, b.end) \o <<"">>
                            \o content_lines(new_content) \o <<"">>
                            \o From(p.lines, b.end)))

\* list_sections(text): the printed lines
RECURSIVE outline_lines(_)
outline_lines(sections) ==
  IF sections = <<>> THEN <<>>
  ELSE <<indent(Head(sections).level - 1) \o hashes(Head(sections).level)
         \o " " \o Head(sections).title>>
       \o outline_lines(Tail(sections))

list_sections(text) == outline_lines(parse_sections(text).sections)


(***************************************************************************)
(* State.                                                                  *)
(*   One run of main():                                                    *)
(*     pc        position in main                                          *)
(*     args      the parsed command line (None and '' are both modelled    *)
(*               by "": the script only tests these for truth)             *)
(*     env       what the run finds outside args.file: stdin, the file     *)
(*               --content names, and the file as it was before the run    *)
(*     disk      the file args.file names: exists, data                    *)
(*     text      main's local 'text'                                       *)
(*     content   main's local 'content' (none: it is None)                 *)
(*     result    main's local 'result' (set: it was assigned)              *)
(*     stdout, stderr, exitcode (-1 while running), reads, writes          *)
(*   Application of the functions to drawn inputs:                         *)
(*     step, doc, parsed, target, bounds, op, new_content, edited,         *)
(*     content2, again                                                     *)
(***************************************************************************)
VARIABLES pc, args, env, disk, text, content, result, stdout, stderr,
          exitcode, reads, writes,
          step, doc, parsed, target, bounds, op, new_content, edited,
          content2, again

runvars == <<pc, args, env, disk, text, content, result, stdout, stderr,
             exitcode, reads, writes>>

fnvars == <<step, doc, parsed, target, bounds, op, new_content, edited,
            content2, again>>

vars == <<runvars, fnvars>>

(***************************************************************************)
(* Inputs.                                                                 *)
(***************************************************************************)
RECURSIVE SeqsUpTo(_, _)
SeqsUpTo(S, n) ==
  IF n = 0 THEN {<<>>}
  ELSE LET shorter == SeqsUpTo(S, n - 1)
       IN  shorter \cup {Append(q, e) : q \in {r \in shorter : Len(r) = n - 1}, e \in S}

RECURSIVE StringsUpTo(_, _)
StringsUpTo(S, n) ==
  IF n = 0 THEN {""}
  ELSE LET shorter == StringsUpTo(S, n - 1)
       IN  shorter \cup {q \o e : q \in {r \in shorter : Len(r) = n - 1}, e \in S}

DocLineSet == {"# Ab", "## B", "### b", "#b", ""}

ScenarioDoc == "# A\ntext1\n## B\ntext2\n# C\ntext3"

Docs == {join_nl(ls) : ls \in SeqsUpTo(DocLineSet, MaxDocLines)} \cup {ScenarioDoc}

Titles == {"A", "b", "zz", ""}

Contents == {"", "\n", "x\n\n", "\nx", " \n", "new", "# Z", "### b\ny\n"}

Contents2 == {"y", "\n", "# Z\n"}

Alphabet == {"#", " ", "a", "\n"}

LeadLines ==
  {hashes(k) \o w \o t : k \in 0..MaxLead,
                         w \in {"", " ", "\t", " \t"},
                         t \in {"", "a", "a b ", "#a"}}

ParseTexts ==
  StringsUpTo(Alphabet, MaxTextLen)
    \cup LeadLines
    \cup {"t\n" \o l \o "\n# a" : l \in LeadLines}

RunLineSet == {"# Ab", "## B", "t"}

RunDocs == {join_nl(ls) : ls \in SeqsUpTo(RunLineSet, MaxRunLines)}

RunTitles == {"", "b", "zz"}

RunContents == {"", "x\n"}

NoContent == [none |-> TRUE, text |-> ""]

NoResult == [set |-> FALSE, text |-> ""]

NoParse == [lines |-> <<>>, sections |-> <<>>]

RunIdle ==
  /\ pc = "idle"
  /\ args = [section |-> "", append_after |-> "", content |-> "",
             content_stdin |-> FALSE, content_inline |-> "",
             list_sections |-> FALSE, dry_run |-> FALSE]
  /\ env = [stdin |-> "", content_file |-> "", file |-> [exists |-> FALSE, data |-> ""]]
  /\ disk = [exists |-> FALSE, data |-> ""]
  /\ text = ""
  /\ content = NoContent
  /\ result = NoResult
  /\ stdout = <<>>
  /\ stderr = <<>>
  /\ exitcode = -1
  /\ reads = 0
  /\ writes = 0

FnIdle ==
  /\ step = "idle"
  /\ doc = ""
  /\ parsed = NoParse
  /\ target = ""
  /\ bounds = NotFoundBounds
  /\ op = ""
  /\ new_content = ""
  /\ edited = SysExit
  /\ content2 = ""
  /\ again = SysExit

(***************************************************************************)
(* One run of main().                                                      *)
(***************************************************************************)
Init ==
  /\ FnIdle
  /\ pc = "start"
  /\ \E section \in RunTitles, append_after \in RunTitles,
        path \in {"", "content.txt"}, content_stdin \in BOOLEAN,
        content_inline \in RunContents,
        list \in BOOLEAN, dry_run \in BOOLEAN :
       args = [section |-> section, append_after |-> append_after,
               content |-> path, content_stdin |-> content_stdin,
               content_inline |-> content_inline,
               list_sections |-> list, dry_run |-> dry_run]
  /\ disk \in {[exists |-> FALSE, data |-> ""]}
                \cup {[exists |-> TRUE, data |-> d] : d \in RunDocs}
  /\ \E cf \in (IF args.content # "" THEN RunContents ELSE {""}),
        si \in (IF args.content = "" /\ args.content_stdin THEN RunContents ELSE {""}) :
       env = [stdin |-> si, content_file |-> cf, file |-> disk]
  /\ text = ""
  /\ content = NoContent
  /\ result = NoResult
  /\ stdout = <<>>
  /\ stderr = <<>>
  /\ exitcode = -1
  /\ reads = 0
  /\ writes = 0

\* sys.exit(1) after print(msg, file=sys.stderr)
Fail(msg) ==
  /\ stderr' = Append(stderr, msg)
  /\ exitcode' = 1
  /\ pc' = "done"

\* if not os.path.exists(args.file): ... sys.exit(1)
CheckFile ==
  /\ pc = "start"
  /\ IF ~disk.exists
       THEN Fail("ERROR: File not found")
       ELSE pc' = "open" /\ UNCHANGED <<stderr, exitcode>>
  /\ UNCHANGED <<args, env, disk, text, content, result, stdout, reads, writes>>
  /\ UNCHANGED fnvars

\* with open(args.file, 'r') as f: text = f.read()
ReadFile ==
  /\ pc = "open"
  /\ text' = disk.data
  /\ reads' = reads + 1
  /\ pc' = "loaded"
  /\ UNCHANGED <<args, env, disk, content, result, stdout, stderr, exitcode, writes>>
  /\ UNCHANGED fnvars

\* if args.list_sections: list_sections(text); return
ListSections ==
  /\ pc = "loaded"
  /\ args.list_sections
  /\ stdout' = stdout \o list_sections(text)
  /\ exitcode' = 0
  /\ pc' = "done"
  /\ UNCHANGED <<args, env, disk, text, content, result, stderr, reads, writes>>
  /\ UNCHANGED fnvars

read_content(a, e) ==
  IF a.content # "" THEN [none |-> FALSE, text |-> e.content_file]
  ELSE IF a.content_stdin THEN [none |-> FALSE, text |-> e.stdin]
  ELSE IF a.content_inline # "" THEN [none |-> FALSE, text |-> a.content_inline]
  ELSE NoContent

\* content = read_content(args)
ReadContent ==
  /\ pc = "loaded"
  /\ ~args.list_sections
  /\ content' = read_content(args, env)
  /\ pc' = "dispatch"
  /\ UNCHANGED <<args, env, disk, text, result, stdout, stderr, exitcode, reads, writes>>
  /\ UNCHANGED fnvars

\* The outcome of  result = f(text, title, content)  in main: f returns, or
\* it exits the process.
Assign(r) ==
  IF r.exit # 0
    THEN Fail("ERROR: Section not found") /\ UNCHANGED result
    ELSE /\ result' = [set |-> TRUE, text |-> r.text]
         /\ pc' = "result"
         /\ UNCHANGED <<stderr, exitcode>>

\* if args.section: ...
SectionBranch ==
  /\ pc = "dispatch"
  /\ args.section # ""
  /\ IF content.none
       THEN Fail("ERROR: --section requires content") /\ UNCHANGED result
       ELSE Assign(replace_section(text, args.section, content.text))
  /\ UNCHANGED <<args, env, disk, text, content, stdout, reads, writes>>
  /\ UNCHANGED fnvars

\* elif args.append_after: ...
AppendBranch ==
  /\ pc = "dispatch"
  /\ args.section = ""
  /\ args.append_after # ""
  /\ IF content.none
       THEN Fail("ERROR: --append-after requires content") /\ UNCHANGED result
       ELSE Assign(append_after_section(text, args.append_after, content.text))
  /\ UNCHANGED <<args, env, disk, text, content, stdout, reads, writes>>
  /\ UNCHANGED fnvars

\* else: parser.print_help(); sys.exit(1)
HelpBranch ==
  /\ pc = "dispatch"
  /\ args.section = ""
  /\ args.append_after = ""
  /\ stdout' = Append(stdout, "usage")
  /\ exitcode' = 1
  /\ pc' = "done"
  /\ UNCHANGED <<args, env, disk, text, content, result, stderr, reads, writes>>
  /\ UNCHANGED fnvars

\* Mutant of DryRun: the result is printed and written too.
DryRunWrites ==
  /\ pc = "result"
  /\ args.dry_run
  /\ stdout' = Append(stdout, result.text)
  /\ disk' = [exists |-> TRUE, data |-> result.text]
  /\ writes' = writes + 1
  /\ exitcode' = 0
  /\ pc' = "done"
  /\ UNCHANGED <<args, env, text, content, result, stderr, reads>>
  /\ UNCHANGED <<step, doc, parsed, target, bounds, op, new_content, edited,
                 content2, again>>

\* if args.dry_run: print(result)
DryRun ==
  /\ pc = "result"
  /\ args.dry_run
  /\ stdout' = Append(stdout, result.text)
  /\ exitcode' = 0
  /\ pc' = "done"
  /\ UNCHANGED <<args, env, disk, text, content, result, stderr, reads, writes>>
  /\ UNCHANGED fnvars

\* else: with open(args.file, 'w') as f: f.write(result); print("Updated: ...")
WriteFile ==
  /\ pc = "result"
  /\ ~args.dry_run
  /\ disk' = [exists |-> TRUE, data |-> result.text]
  /\ writes' = writes + 1
  /\ stdout' = Append(stdout, "Updated")
  /\ exitcode' = 0
  /\ pc' = "done"
  /\ UNCHANGED <<args, env, text, content, result, stderr, reads>>
  /\ UNCHANGED fnvars

Next ==
  \/ CheckFile
  \/ ReadFile
  \/ ListSections
  \/ ReadContent
  \/ SectionBranch
  \/ AppendBranch
  \/ HelpBranch
  \/ DryRun
  \/ WriteFile

Spec == Init /\ [][Next]_vars

(***************************************************************************)
(* The functions applied to drawn inputs: parse_sections and               *)
(* find_section_bounds on a document and a title, then replace_section or  *)
(* append_after_section, then the same operation on the text it returned.  *)
(***************************************************************************)
InitFn(texts) ==
  /\ RunIdle
  /\ step = "input"
  /\ doc \in texts
  /\ parsed = NoParse
  /\ target = ""
  /\ bounds = NotFoundBounds
  /\ op = ""
  /\ new_content = ""
  /\ edited = SysExit
  /\ content2 = ""
  /\ again = SysExit

InitEdit == InitFn(Docs)

InitParse == InitFn(ParseTexts)

Parse ==
  /\ step = "input"
  /\ parsed' = parse_sections(doc)
  /\ step' = "parsed"
  /\ UNCHANGED <<doc, target, bounds, op, new_content, edited, content2, again>>
  /\ UNCHANGED runvars

Locate ==
  /\ step = "parsed"
  /\ \E t \in Titles :
       /\ target' = t
       /\ bounds' = find_section_bounds(parsed.lines, parsed.sections, t)
  /\ step' = "located"
  /\ UNCHANGED <<doc, parsed, op, new_content, edited, content2, again>>
  /\ UNCHANGED runvars

Replace ==
  /\ step = "located"
  /\ \E c \in Contents :
       /\ new_content' = c
       /\ edited' = replace_section(doc, target, c)
  /\ op' = "replace"
  /\ step' = "edited"
  /\ UNCHANGED <<doc, parsed, target, bounds, content2, again>>
  /\ UNCHANGED runvars

AppendAfter ==
  /\ step = "located"
  /\ \E c \in Contents :
       /\ new_content' = c
       /\ edited' = append_after_section(doc, target, c)
  /\ op' = "append"
  /\ step' = "edited"
  /\ UNCHANGED <<doc, parsed, target, bounds, content2, again>>
  /\ UNCHANGED runvars

\* The same replacement on the text the first one returned.
ReplaceAgain ==
  /\ step = "edited"
  /\ op = "replace"
  /\ edited.exit = 0
  /\ content2' = new_content
  /\ again' = replace_section(edited.text, target, new_content)
  /\ step' = "twice"
  /\ UNCHANGED <<doc, parsed, target, bounds, op, new_content, edited>>
  /\ UNCHANGED runvars

\* A second append after the same section of the text the first one returned.
AppendAgain ==
  /\ step = "edited"
  /\ op = "append"
  /\ edited.exit = 0
  /\ \E y \in Contents2 :
       /\ content2' = y
       /\ again' = append_after_section(edited.text, target, y)
  /\ step' = "twice"
  /\ UNCHANGED <<doc, parsed, target, bounds, op, new_content, edited>>
  /\ UNCHANGED runvars

NextEdit ==
  \/ Parse
  \/ Locate
  \/ Replace
  \/ AppendAfter
  \/ ReplaceAgain
  \/ AppendAgain

SpecEdit == InitEdit /\ [][NextEdit]_vars

NextParse == Parse

SpecParse == InitParse /\ [][NextParse]_vars


(***************************************************************************)
(* Vocabulary of the properties, stated on lines and characters without    *)
(* the regular expression or the loops of the script.                      *)
(***************************************************************************)
RECURSIVE LeadingHashes(_)
LeadingHashes(line) ==
  IF line # "" /\ Chr(line, 1) = "#" THEN 1 + LeadingHashes(Tail(line)) ELSE 0

\* 1 to 6 leading '#', then at least one whitespace character.
IsHeadingLine(line) ==
  LET n == LeadingHashes(line)
  IN  /\ 1 <= n
      /\ n <= 6
      /\ Len(line) > n
      /\ Chr(line, n + 1) \in Whitespace

\* The text after the leading '#', trimmed.
TitleOf(line) == strip(From(line, LeadingHashes(line)))

\* Case-insensitive "equals or contains".
EqualsOrContainsCI(title, t) ==
  LET a == lower(title)
      b == lower(t)
  IN  \E i \in 0..(Len(a) - Len(b)) : SubSeq(a, i + 1, i + Len(b)) = b

HeadingLines(lines) == {i \in 0..(Len(lines) - 1) : IsHeadingLine(lines[i + 1])}

MatchingLines(lines, t) ==
  {i \in HeadingLines(lines) : EqualsOrContainsCI(TitleOf(lines[i + 1]), t)}

Min(S) == CHOOSE m \in S : \A o \in S : m <= o

\* The lines of a content string with its trailing blank (empty) lines
\* removed; a text has at least one line (the empty text is one empty line).
RECURSIVE DropTrailingBlank(_)
DropTrailingBlank(ls) ==
  IF Len(ls) > 1 /\ ls[Len(ls)] = ""
    THEN DropTrailingBlank(SubSeq(ls, 1, Len(ls) - 1))
    ELSE ls

TrimmedLines(c) == DropTrailingBlank(split_nl(c))

\* Whether some line of the content is a heading of level <= level.
HasHeadingUpTo(c, level) ==
  \E j \in 1..Len(TrimmedLines(c)) :
    /\ IsHeadingLine(TrimmedLines(c)[j])
    /\ LeadingHashes(TrimmedLines(c)[j]) <= level

Located == step \in {"located", "edited", "twice"}

Edited == step \in {"edited", "twice"}

\* R is: the n first lines of L, a blank line, the lines C, a blank line,
\* then the lines of L from index e on.
IsSplice(R, L, n, C, e) ==
  /\ Len(R) = n + 1 + Len(C) + 1 + (Len(L) - e)
  /\ \A i \in 1..n : R[i] = L[i]
  /\ R[n + 1] = ""
  /\ \A j \in 1..Len(C) : R[n + 1 + j] = C[j]
  /\ R[n + 1 + Len(C) + 1] = ""
  /\ \A k \in (e + 1)..Len(L) : R[n + 2 + Len(C) + (k - e)] = L[k]

(***************************************************************************)
(* C1.  For a title that matches some heading, find_section_bounds returns *)
(* start = the line index of a matching heading, level = its number of     *)
(* '#', end = the line index of the first later heading of level <= level, *)
(* or the line count when there is none; deeper headings in between do not *)
(* end the range, and start < end <= line count.                           *)
(***************************************************************************)
C1_SectionBounds ==
  (Located /\ MatchingLines(parsed.lines, target) # {}) =>
    LET L == parsed.lines
        enders == {i \in HeadingLines(L) :
                     /\ i > bounds.start
                     /\ LeadingHashes(L[i + 1]) <= bounds.level}
    IN  /\ bounds.found
        /\ bounds.start \in MatchingLines(L, target)
        /\ bounds.level = LeadingHashes(L[bounds.start + 1])
        /\ bounds.end = (IF enders = {} THEN Len(L) ELSE Min(enders))
        /\ \A i \in HeadingLines(L) :
             (bounds.start < i /\ i < bounds.end) =>
               LeadingHashes(L[i + 1]) > bounds.level
        /\ bounds.start < bounds.end
        /\ bounds.end <= Len(L)

\* A located section that holds a deeper heading and is ended by a heading.
C1_Witness ==
  /\ step = "located"
  /\ bounds.found
  /\ bounds.end < Len(parsed.lines)
  /\ \E i \in HeadingLines(parsed.lines) : bounds.start < i /\ i < bounds.end

(***************************************************************************)
(* C2.  Matching is case-insensitive and first in document order: the      *)
(* heading selected is the one with the smallest line index whose          *)
(* lower-cased title equals or contains the lower-cased target, also when  *)
(* it only contains the target and a later heading equals it.              *)
(***************************************************************************)
C2_FirstMatchWins ==
  Located =>
    /\ bounds.found <=> (MatchingLines(parsed.lines, target) # {})
    /\ bounds.found => bounds.start = Min(MatchingLines(parsed.lines, target))

\* The selected heading only contains the target; a later one equals it up
\* to case (and differs from it in case).
C2_Witness ==
  /\ step = "located"
  /\ bounds.found
  /\ lower(TitleOf(parsed.lines[bounds.start + 1])) # lower(target)
  /\ \E i \in HeadingLines(parsed.lines) :
       /\ i > bounds.start
       /\ lower(TitleOf(parsed.lines[i + 1])) = lower(target)
       /\ TitleOf(parsed.lines[i + 1]) # target

(***************************************************************************)
(* C3.  replace_section returns the lines 0..start of the document, one    *)
(* blank line, the content's lines with trailing blank lines trimmed, one  *)
(* blank line, then the lines from end on; the old body is dropped.        *)
(* Replacing "A" by "new" in the scenario document gives                   *)
(* "# A\n\nnew\n\n# C\ntext3".                                             *)
(***************************************************************************)
C3_ReplaceBody ==
  /\ (Edited /\ op = "replace" /\ bounds.found) =>
       /\ edited.exit = 0
       /\ IsSplice(split_nl(edited.text), parsed.lines, bounds.start + 1,
                   TrimmedLines(new_content), bounds.end)
  /\ (Edited /\ op = "replace" /\ doc = ScenarioDoc /\ target = "A"
        /\ new_content = "new") =>
       edited = Returned("# A\n\nnew\n\n# C\ntext3")

\* A replacement that drops a body holding a subsection, with content that
\* ends in blank lines, before a heading that stays.
C3_Witness ==
  /\ step = "edited"
  /\ op = "replace"
  /\ bounds.found
  /\ bounds.end > bounds.start + 2
  /\ bounds.end < Len(parsed.lines)
  /\ new_content = "x\n\n"

(***************************************************************************)
(* C4.  Replace is idempotent: replacing the section again with the same   *)
(* content gives the text of the first replacement.                        *)
(***************************************************************************)
C4_Idempotent ==
  (step = "twice" /\ op = "replace") => again = edited

\* C4 as amended: replace is idempotent provided no line of the content is a
\* heading of level <= the level of the matched heading.
C4_IdempotentNoHeading ==
  (step = "twice" /\ op = "replace"
     /\ ~HasHeadingUpTo(new_content, bounds.level)) =>
    again = edited

\* A second replacement, of a body the first one changed, with content that
\* holds a deeper heading.
C4_Witness ==
  /\ step = "twice"
  /\ op = "replace"
  /\ ~HasHeadingUpTo(new_content, bounds.level)
  /\ \E j \in 1..Len(TrimmedLines(new_content)) :
       IsHeadingLine(TrimmedLines(new_content)[j])
  /\ edited.text # doc
  /\ again = edited

(***************************************************************************)
(* C5.  append_after_section keeps the lines [0, end) and the lines from   *)
(* end on, and puts between them one blank line, the content's lines with  *)
(* trailing blank lines trimmed, and one blank line; after the last        *)
(* section the insertion is at the end of the document.                    *)
(***************************************************************************)
C5_AppendAfter ==
  (Edited /\ op = "append" /\ bounds.found) =>
    /\ edited.exit = 0
    /\ IsSplice(split_nl(edited.text), parsed.lines, bounds.end,
                TrimmedLines(new_content), bounds.end)
    /\ bounds.end = Len(parsed.lines) =>
         split_nl(edited.text) =
           parsed.lines \o <<"">> \o TrimmedLines(new_content) \o <<"">>

\* An append after a last section that holds a subsection.
C5_Witness ==
  /\ step = "edited"
  /\ op = "append"
  /\ bounds.found
  /\ bounds.end = Len(parsed.lines)
  /\ \E i \in HeadingLines(parsed.lines) : bounds.start < i /\ i < bounds.end
  /\ new_content = "x\n\n"

(***************************************************************************)
(* C10.  Successive appends keep their order: after X was appended after   *)
(* section T (X without a heading of level <= T's), T is found again at    *)
(* the same start with its end moved by the number of inserted lines       *)
(* (X's trimmed lines plus 2), X lies inside T, and Y is inserted after X  *)
(* and before the lines that followed T.                                   *)
(***************************************************************************)
C10_AppendOrder ==
  (step = "twice" /\ op = "append"
     /\ ~HasHeadingUpTo(new_content, bounds.level)) =>
    LET L  == parsed.lines
        L1 == split_nl(edited.text)
        p1 == parse_sections(edited.text)
        b1 == find_section_bounds(p1.lines, p1.sections, target)
        X  == TrimmedLines(new_content)
        Y  == TrimmedLines(content2)
        R  == split_nl(again.text)
    IN  /\ b1.found
        /\ b1.start = bounds.start
        /\ Len(L1) - Len(L) = Len(X) + 2
        /\ b1.end = bounds.end + Len(X) + 2
        /\ \A j \in 1..Len(X) :
             /\ bounds.end + j < b1.end
             /\ L1[bounds.end + 1 + j] = X[j]
        /\ again.exit = 0
        /\ IsSplice(R, L1, b1.end, Y, b1.end)
        /\ \A j \in 1..Len(X) : R[bounds.end + 1 + j] = X[j]
        /\ \A j \in 1..Len(Y) : R[b1.end + 1 + j] = Y[j]
        /\ \A k \in (bounds.end + 1)..Len(L) :
             R[b1.end + Len(Y) + 2 + (k - bounds.end)] = L[k]

\* Two appends after a section that a heading follows.
C10_Witness ==
  /\ step = "twice"
  /\ op = "append"
  /\ ~HasHeadingUpTo(new_content, bounds.level)
  /\ bounds.end < Len(parsed.lines)
  /\ new_content = "### b\ny\n"
  /\ content2 = "y"

(***************************************************************************)
(* C8.  parse_sections returns one record for every line made of 1 to 6    *)
(* leading '#', at least one whitespace character and the rest, and none   *)
(* for any other line (7 or more '#' is no heading); level is the number   *)
(* of leading '#', title the trimmed rest, and the records are in strictly *)
(* increasing line order.                                                  *)
(***************************************************************************)
C8_Outline ==
  (step = "parsed") =>
    LET L == parsed.lines
        S == parsed.sections
    IN  /\ join_nl(L) = doc
        /\ \A i \in 1..Len(L) : ~contains(L[i], NL)
        /\ Len(S) = Cardinality(HeadingLines(L))
        /\ \A j \in 1..Len(S) :
             /\ S[j].line_idx \in HeadingLines(L)
             /\ S[j].level = LeadingHashes(L[S[j].line_idx + 1])
             /\ 1 <= S[j].level
             /\ S[j].level <= 6
             /\ S[j].title = TitleOf(L[S[j].line_idx + 1])
        /\ \A j \in 1..(Len(S) - 1) : S[j].line_idx < S[j + 1].line_idx

\* A text with a heading after a line of 7 '#' and whitespace.
C8_Witness ==
  /\ step = "parsed"
  /\ Len(parsed.sections) = 1
  /\ \E i \in 1..Len(parsed.lines) :
       /\ LeadingHashes(parsed.lines[i]) = 7
       /\ Len(parsed.lines[i]) > 7
       /\ Chr(parsed.lines[i], 8) \in Whitespace
       /\ parsed.sections[1].line_idx > i - 1

(***************************************************************************)
(* Properties of a run of main().                                          *)
(***************************************************************************)
\* The title the run edits at: --section, else --append-after.
EditTitle == IF args.section # "" THEN args.section ELSE args.append_after

\* The run went past the call of replace_section / append_after_section.
PastEdit ==
  /\ pc \in {"result", "done"}
  /\ reads = 1
  /\ ~args.list_sections
  /\ EditTitle # ""

(***************************************************************************)
(* C6.  When no heading matches the title, find_section_bounds returns     *)
(* not-found, replace_section and append_after_section end in the error    *)
(* outcome without a result, and the run ends without writing the file.    *)
(***************************************************************************)
C6_NotFound ==
  (PastEdit /\ ~content.none
     /\ MatchingLines(split_nl(text), EditTitle) = {}) =>
    /\ find_section_bounds(parse_sections(text).lines,
                           parse_sections(text).sections, EditTitle)
         = NotFoundBounds
    /\ replace_section(text, EditTitle, content.text) = SysExit
    /\ append_after_section(text, EditTitle, content.text) = SysExit
    /\ pc = "done"
    /\ exitcode = 1
    /\ ~result.set
    /\ writes = 0
    /\ disk = env.file

\* A run with content whose title matches no heading of a file with headings.
C6_Witness ==
  /\ PastEdit
  /\ ~content.none
  /\ HeadingLines(split_nl(text)) # {}
  /\ MatchingLines(split_nl(text), EditTitle) = {}
  /\ exitcode = 1

(***************************************************************************)
(* C7.  A replace or append for which no content is supplied, also when    *)
(* the content is the empty string, is rejected: no result is produced and *)
(* the file is not written.                                                *)
(***************************************************************************)
C7_EmptyContentRejected ==
  (PastEdit /\ (content.none \/ content.text = "")) =>
    /\ ~result.set
    /\ writes = 0
    /\ pc = "done" => exitcode = 1

(***************************************************************************)
(* C9.  A run reads the document at most once and writes it at most once;  *)
(* the write is the last step, after replace or append produced a result;  *)
(* a run with --list-sections or --dry-run, without the file, with neither *)
(* --section nor --append-after, or ending in an error leaves the file as  *)
(* it was.                                                                 *)
(***************************************************************************)
C9_ReadWriteOnce ==
  /\ reads <= 1
  /\ writes <= 1
  /\ writes = 1 =>
       /\ pc = "done"
       /\ reads = 1
       /\ result.set
       /\ disk = [exists |-> TRUE, data |-> result.text]
       /\ exitcode = 0
  /\ writes = 0 => disk = env.file
  /\ (\/ args.list_sections
      \/ args.dry_run
      \/ ~env.file.exists
      \/ args.section = "" /\ args.append_after = ""
      \/ exitcode = 1) =>
       /\ writes = 0
       /\ disk = env.file

\* A dry run that produced a result differing from the file, and finished.
C9_Witness ==
  /\ pc = "done"
  /\ args.dry_run
  /\ result.set
  /\ result.text # env.file.data
  /\ exitcode = 0

====
